---- MODULE Spec2Model ----
(***************************************************************************)
(* Model of druid-enums: the `Matcher` derive macro (src/src/lib.rs) and   *)
(* the dispatcher widget it generates for a tagged union.                  *)
(*                                                                         *)
(* Spec     : one generated dispatcher instance driven by its host: the    *)
(*            builder chain, then event / lifecycle / update / layout /    *)
(*            paint calls with arbitrary arguments.                        *)
(* GenSpec  : the derive function applied to a union declaration.          *)
(***************************************************************************)
EXTENDS Integers, Sequences, FiniteSets, TLC

\* ------------------------------------------------------------------ bounds
NumVariants == 2      \* variants of the union the dispatcher was derived for
NumShared   == 2      \* values of the Shared half of the aggregate
NumPayload  == 2      \* payload values of a variant
NumWidgets  == 1      \* distinct child widgets the UI author can install
MaxWidth    == 1      \* largest width of a Size
MaxHeight   == 0      \* largest height of a Size
MaxVariants == 2      \* variants of a union declaration handed to derive
MaxFields   == 2      \* payload fields of a variant of such a declaration

\* ------------------------------------------------------- Option<T> of Rust
None == <<>>
Some(x) == <<x>>

\* ------------------------------------------------------------ value spaces
Variants == 1..NumVariants
Widgets == 1..NumWidgets
\* widget 0 is ::druid::widget::SizedBox::empty()
SizedBoxEmpty == 0
Shareds == 0..(NumShared - 1)
Payloads == 0..(NumPayload - 1)
\* a value of the union: its variant and that variant's payload
Unions == [variant : Variants, payload : Payloads]
\* the aggregate (Shared, Enum) every widget call of the dispatcher takes
Aggregates == Shareds \X Unions
\* the pair (Shared, Payload) a variant's child widget takes
ChildDatas == Shareds \X Payloads
Events == {"Command", "MouseDown"}
LifeCycles == {"WidgetAdded", "HotChanged"}
Sizes == [width : 0..MaxWidth, height : 0..MaxHeight]
BoxConstraintss == {bc \in [min : Sizes, max : Sizes] :
                      /\ bc.min.width <= bc.max.width
                      /\ bc.min.height <= bc.max.height}

\* ::std::mem::discriminant(&data.1)
discriminant(u) == u.variant

\* Size::to_rect(): the rectangle at the origin with this size
to_rect(size) == [x0 |-> 0, y0 |-> 0, x1 |-> size.width, y1 |-> size.height]

\* BoxConstraints::min()
bc_min(bc) == bc.min

VARIABLES
  slots,            \* per variant: Option<WidgetPod<(Shared, P), Box<dyn Widget>>>
  default_,         \* Option<Box<dyn Widget<Enum>>>
  discriminant_,    \* Option<Discriminant<Enum>>
  pc,               \* "building": the builder chain; "mounted": in the widget tree,
                    \* no call in progress; "called": a widget call has run
  call,             \* the most recent call made on the dispatcher, with its arguments
  data,             \* the aggregate as the most recent call left it
  ret,              \* the Size the most recent call returned (layout only)
  forwarded,        \* the calls the most recent call made on child widgets, in order
  warned,           \* the ::log::warn! records of the most recent call, in order
  children_changed, \* number of ctx.children_changed() calls of the most recent call
  lifecycle_seen,   \* the variant of the value given to the latest lifecycle call
  lifecycle_sent,   \* the <<slot, widget>> children that call was forwarded to
  decl,             \* the union declaration handed to derive
  expansion         \* the items derive returned for decl

vars == <<slots, default_, discriminant_, pc, call, data, ret, forwarded,
          warned, children_changed, lifecycle_seen, lifecycle_sent, decl,
          expansion>>
self_vars == <<slots, default_, discriminant_>>
gen_vars == <<decl, expansion>>

\* a call on the dispatcher; the arguments a call does not take are None
NoCall == [fn |-> "new", event |-> None, old_data |-> None, data |-> None,
           bc |-> None, variant |-> None, widget |-> None]

\* a call the dispatcher makes on a child widget pod
ChildCall(fn, v, widget) ==
  [fn |-> fn, slot |-> v, widget |-> widget, event |-> None, data |-> None,
   bc |-> None, rect |-> None, result |-> None]

\* ----------------------------------------------------------- builder surface
\* pub fn new() -> Self
new ==
  /\ slots = [v \in Variants |-> None]
  /\ default_ = None
  /\ discriminant_ = None

\* a setter that builds on a fresh Self instead of self
builder_fns_fresh(v, widget) ==
  /\ pc = "building"
  /\ slots' = [[u \in Variants |-> None] EXCEPT ![v] = Some(widget)]
  /\ call' = [NoCall EXCEPT !.fn = "builder_fns", !.variant = Some(v),
                            !.widget = Some(widget)]
  /\ UNCHANGED <<default_, discriminant_, pc, data, ret, forwarded, warned,
                 children_changed, lifecycle_seen, lifecycle_sent, gen_vars>>

\* pub fn #builder_name(mut self, widget) -> Self
builder_fns(v, widget) ==
  /\ pc = "building"
  /\ slots' = [slots EXCEPT ![v] = Some(widget)]
  /\ call' = [NoCall EXCEPT !.fn = "builder_fns", !.variant = Some(v),
                            !.widget = Some(widget)]
  /\ UNCHANGED <<default_, discriminant_, pc, data, ret, forwarded, warned,
                 children_changed, lifecycle_seen, lifecycle_sent, gen_vars>>

\* pub fn default(mut self, widget) -> Self
default(widget) ==
  /\ pc = "building"
  /\ default_' = Some(widget)
  /\ call' = [NoCall EXCEPT !.fn = "default", !.widget = Some(widget)]
  /\ UNCHANGED <<slots, discriminant_, pc, data, ret, forwarded, warned,
                 children_changed, lifecycle_seen, lifecycle_sent, gen_vars>>

\* pub fn default_empty(mut self) -> Self
default_empty ==
  /\ pc = "building"
  /\ default_' = Some(SizedBoxEmpty)
  /\ call' = [NoCall EXCEPT !.fn = "default_empty"]
  /\ UNCHANGED <<slots, discriminant_, pc, data, ret, forwarded, warned,
                 children_changed, lifecycle_seen, lifecycle_sent, gen_vars>>

\* the finished builder chain is handed to the widget tree (examples/login.rs ui)
ui ==
  /\ pc = "building"
  /\ pc' = "mounted"
  /\ call' = [NoCall EXCEPT !.fn = "ui"]
  /\ UNCHANGED <<self_vars, data, ret, forwarded, warned, children_changed,
                 lifecycle_seen, lifecycle_sent, gen_vars>>

\* --------------------------------------------------- per-variant match arms
\* event_match that writes back the payload only, not the shared state
event_match_payload_only(v, event, agg, d_after) ==
  IF slots[v] # None
  THEN LET widget == slots[v][1]
           d == <<agg[1], agg[2].payload>>
       IN [forwarded |-> << [ChildCall("event", v, widget) EXCEPT
                               !.event = Some(event), !.data = Some(d),
                               !.result = Some(d_after)] >>,
           data |-> <<agg[1], [variant |-> v, payload |-> d_after[2]]>>]
  ELSE [forwarded |-> <<>>, data |-> agg]

\* #enum_name::#variant_name #data_pattern => match &mut self.#builder_name
\* d_after is the pair as the child's event handler leaves it
event_match(v, event, agg, d_after) ==
  IF slots[v] # None
  THEN LET widget == slots[v][1]
           d == <<agg[1], agg[2].payload>>
       IN [forwarded |-> << [ChildCall("event", v, widget) EXCEPT
                               !.event = Some(event), !.data = Some(d),
                               !.result = Some(d_after)] >>,
           data |-> <<d_after[1], [variant |-> v, payload |-> d_after[2]]>>]
  ELSE [forwarded |-> <<>>, data |-> agg]

lifecycle_match(v, event, agg) ==
  IF slots[v] # None
  THEN << [ChildCall("lifecycle", v, slots[v][1]) EXCEPT
             !.event = Some(event),
             !.data = Some(<<agg[1], agg[2].payload>>)] >>
  ELSE <<>>

update_match(v, agg) ==
  IF slots[v] # None
  THEN << [ChildCall("update", v, slots[v][1]) EXCEPT
             !.data = Some(<<agg[1], agg[2].payload>>)] >>
  ELSE <<>>

\* BoxConstraints::constrain(): the size clamped into the constraints
constrain(bc, size) ==
  LET clamp(lo, x, hi) == IF x < lo THEN lo ELSE IF x > hi THEN hi ELSE x
  IN [width |-> clamp(bc.min.width, size.width, bc.max.width),
      height |-> clamp(bc.min.height, size.height, bc.max.height)]

\* layout_match that clamps the child's size into the constraints before
\* placing the child and returning
layout_match_constrain(v, bc, agg, size) ==
  IF slots[v] # None
  THEN LET widget == slots[v][1]
           d == <<agg[1], agg[2].payload>>
       IN [forwarded |-> << [ChildCall("layout", v, widget) EXCEPT
                               !.bc = Some(bc), !.data = Some(d),
                               !.result = Some(size)],
                            [ChildCall("set_layout_rect", v, widget) EXCEPT
                               !.data = Some(d),
                               !.rect = Some(to_rect(constrain(bc, size)))] >>,
           ret |-> constrain(bc, size)]
  ELSE [forwarded |-> <<>>, ret |-> bc_min(bc)]

\* layout_match whose empty slot measures Size::ZERO instead of bc.min()
layout_match_zero(v, bc, agg, size) ==
  IF slots[v] # None
  THEN LET widget == slots[v][1]
           d == <<agg[1], agg[2].payload>>
       IN [forwarded |-> << [ChildCall("layout", v, widget) EXCEPT
                               !.bc = Some(bc), !.data = Some(d),
                               !.result = Some(size)],
                            [ChildCall("set_layout_rect", v, widget) EXCEPT
                               !.data = Some(d),
                               !.rect = Some(to_rect(size))] >>,
           ret |-> size]
  ELSE [forwarded |-> <<>>, ret |-> [width |-> 0, height |-> 0]]

\* size is what the child's layout returns
layout_match(v, bc, agg, size) ==
  IF slots[v] # None
  THEN LET widget == slots[v][1]
           d == <<agg[1], agg[2].payload>>
       IN [forwarded |-> << [ChildCall("layout", v, widget) EXCEPT
                               !.bc = Some(bc), !.data = Some(d),
                               !.result = Some(size)],
                            [ChildCall("set_layout_rect", v, widget) EXCEPT
                               !.data = Some(d),
                               !.rect = Some(to_rect(size))] >>,
           ret |-> size]
  ELSE [forwarded |-> <<>>, ret |-> bc_min(bc)]

paint_match(v, agg) ==
  IF slots[v] # None
  THEN << [ChildCall("paint", v, slots[v][1]) EXCEPT
             !.data = Some(<<agg[1], agg[2].payload>>)] >>
  ELSE <<>>

\* widget_added_checks that forgets the default slot
widget_added_checks_no_default(v) ==
  IF slots[v] = None THEN << v >> ELSE <<>>

\* if self.default_.is_none() && self.#builder_name.is_none() { warn!(..) }
widget_added_checks(v) ==
  IF default_ = None /\ slots[v] = None THEN << v >> ELSE <<>>

\* #(#widget_added_checks)* : the checks of all variants, in declaration order
RECURSIVE all_widget_added_checks(_)
all_widget_added_checks(n) ==
  IF n = 0 THEN <<>>
  ELSE all_widget_added_checks(n - 1) \o widget_added_checks(n)

\* the children a sequence of child calls went to, in order
sent_to(calls) ==
  [i \in 1..Len(calls) |-> <<calls[i].slot, calls[i].widget>>]

\* the arm of `match &data.1` that the value takes
match_arm(u) == CHOOSE v \in Variants : u.variant = v

\* ------------------------------------------- impl Widget for the dispatcher
\* each action is one call by the host, with any event, aggregate and
\* constraints, and any behaviour of the child that is called
\* event without the discriminant guard
event_unguarded ==
  /\ pc = "mounted"
  /\ \E ev \in Events, agg \in Aggregates, d_after \in ChildDatas :
       /\ LET r == event_match(match_arm(agg[2]), ev, agg, d_after)
          IN /\ forwarded' = r.forwarded
             /\ data' = Some(r.data)
       /\ call' = [NoCall EXCEPT !.fn = "event", !.event = Some(ev),
                                 !.data = Some(agg)]
       /\ ret' = None
       /\ warned' = <<>>
       /\ children_changed' = 0
       /\ pc' = "called"
       /\ UNCHANGED <<self_vars, lifecycle_seen, lifecycle_sent, gen_vars>>

event ==
  /\ pc = "mounted"
  /\ \E ev \in Events, agg \in Aggregates, d_after \in ChildDatas :
       /\ LET r == IF discriminant_ = Some(discriminant(agg[2]))
                   THEN event_match(match_arm(agg[2]), ev, agg, d_after)
                   ELSE [forwarded |-> <<>>, data |-> agg]
          IN /\ forwarded' = r.forwarded
             /\ data' = Some(r.data)
       /\ call' = [NoCall EXCEPT !.fn = "event", !.event = Some(ev),
                                 !.data = Some(agg)]
       /\ ret' = None
       /\ warned' = <<>>
       /\ children_changed' = 0
       /\ pc' = "called"
       /\ UNCHANGED <<self_vars, lifecycle_seen, lifecycle_sent, gen_vars>>

\* lifecycle that records the discriminant only on WidgetAdded
lifecycle_added_only ==
  /\ pc = "mounted"
  /\ \E ev \in LifeCycles, agg \in Aggregates :
       /\ discriminant_' = IF ev = "WidgetAdded"
                           THEN Some(discriminant(agg[2])) ELSE discriminant_
       /\ warned' = IF ev = "WidgetAdded"
                    THEN all_widget_added_checks(NumVariants) ELSE <<>>
       /\ forwarded' = lifecycle_match(match_arm(agg[2]), ev, agg)
       /\ call' = [NoCall EXCEPT !.fn = "lifecycle", !.event = Some(ev),
                                 !.data = Some(agg)]
       /\ data' = Some(agg)
       /\ ret' = None
       /\ children_changed' = 0
       /\ lifecycle_seen' = Some(agg[2].variant)
       /\ lifecycle_sent' = sent_to(forwarded')
       /\ pc' = "called"
       /\ UNCHANGED <<slots, default_, gen_vars>>

\* lifecycle that forwards behind the discriminant guard of event, tested
\* before the new discriminant is recorded
lifecycle_guarded ==
  /\ pc = "mounted"
  /\ \E ev \in LifeCycles, agg \in Aggregates :
       /\ discriminant_' = Some(discriminant(agg[2]))
       /\ warned' = IF ev = "WidgetAdded"
                    THEN all_widget_added_checks(NumVariants) ELSE <<>>
       /\ forwarded' = IF discriminant_ = Some(discriminant(agg[2]))
                       THEN lifecycle_match(match_arm(agg[2]), ev, agg)
                       ELSE <<>>
       /\ call' = [NoCall EXCEPT !.fn = "lifecycle", !.event = Some(ev),
                                 !.data = Some(agg)]
       /\ data' = Some(agg)
       /\ ret' = None
       /\ children_changed' = 0
       /\ lifecycle_seen' = Some(agg[2].variant)
       /\ lifecycle_sent' = sent_to(forwarded')
       /\ pc' = "called"
       /\ UNCHANGED <<slots, default_, gen_vars>>

RECURSIVE lifecycle_match_all(_, _, _)
\* the lifecycle arms of the first n variants, all taken
lifecycle_match_all(n, ev, agg) ==
  IF n = 0 THEN <<>>
  ELSE lifecycle_match_all(n - 1, ev, agg)
         \o lifecycle_match(n, ev, [agg EXCEPT ![2].variant = n])

\* lifecycle that passes the notification to every installed child
lifecycle_broadcast ==
  /\ pc = "mounted"
  /\ \E ev \in LifeCycles, agg \in Aggregates :
       /\ discriminant_' = Some(discriminant(agg[2]))
       /\ warned' = IF ev = "WidgetAdded"
                    THEN all_widget_added_checks(NumVariants) ELSE <<>>
       /\ forwarded' = lifecycle_match_all(NumVariants, ev, agg)
       /\ call' = [NoCall EXCEPT !.fn = "lifecycle", !.event = Some(ev),
                                 !.data = Some(agg)]
       /\ data' = Some(agg)
       /\ ret' = None
       /\ children_changed' = 0
       /\ lifecycle_seen' = Some(agg[2].variant)
       /\ lifecycle_sent' = sent_to(forwarded')
       /\ pc' = "called"
       /\ UNCHANGED <<slots, default_, gen_vars>>

lifecycle ==
  /\ pc = "mounted"
  /\ \E ev \in LifeCycles, agg \in Aggregates :
       /\ discriminant_' = Some(discriminant(agg[2]))
       /\ warned' = IF ev = "WidgetAdded"
                    THEN all_widget_added_checks(NumVariants) ELSE <<>>
       /\ forwarded' = lifecycle_match(match_arm(agg[2]), ev, agg)
       /\ call' = [NoCall EXCEPT !.fn = "lifecycle", !.event = Some(ev),
                                 !.data = Some(agg)]
       /\ data' = Some(agg)
       /\ ret' = None
       /\ children_changed' = 0
       /\ lifecycle_seen' = Some(agg[2].variant)
       /\ lifecycle_sent' = sent_to(forwarded')
       /\ pc' = "called"
       /\ UNCHANGED <<slots, default_, gen_vars>>

\* update that also records the new discriminant when the variant changed
update_refreshes ==
  /\ pc = "mounted"
  /\ \E old_agg \in Aggregates, agg \in Aggregates :
       /\ LET arms == {v \in Variants : old_agg[2].variant = v /\ agg[2].variant = v}
          IN IF arms # {}
             THEN /\ forwarded' = update_match(CHOOSE v \in arms : TRUE, agg)
                  /\ children_changed' = 0
                  /\ discriminant_' = discriminant_
             ELSE /\ forwarded' = <<>>
                  /\ children_changed' = 1
                  /\ discriminant_' = Some(discriminant(agg[2]))
       /\ call' = [NoCall EXCEPT !.fn = "update", !.old_data = Some(old_agg),
                                 !.data = Some(agg)]
       /\ data' = Some(agg)
       /\ ret' = None
       /\ warned' = <<>>
       /\ pc' = "called"
       /\ UNCHANGED <<slots, default_, lifecycle_seen, lifecycle_sent, gen_vars>>

\* update that drops the child of the old variant when the variant changed
update_unmounts ==
  /\ pc = "mounted"
  /\ \E old_agg \in Aggregates, agg \in Aggregates :
       /\ LET arms == {v \in Variants : old_agg[2].variant = v /\ agg[2].variant = v}
          IN IF arms # {}
             THEN /\ forwarded' = update_match(CHOOSE v \in arms : TRUE, agg)
                  /\ children_changed' = 0
                  /\ slots' = slots
             ELSE /\ forwarded' = <<>>
                  /\ children_changed' = 1
                  /\ slots' = [slots EXCEPT ![old_agg[2].variant] = None]
       /\ call' = [NoCall EXCEPT !.fn = "update", !.old_data = Some(old_agg),
                                 !.data = Some(agg)]
       /\ data' = Some(agg)
       /\ ret' = None
       /\ warned' = <<>>
       /\ pc' = "called"
       /\ UNCHANGED <<default_, discriminant_, lifecycle_seen, lifecycle_sent, gen_vars>>

\* update that matches on the new value only
update_new_only ==
  /\ pc = "mounted"
  /\ \E old_agg \in Aggregates, agg \in Aggregates :
       /\ forwarded' = update_match(match_arm(agg[2]), agg)
       /\ children_changed' = 0
       /\ call' = [NoCall EXCEPT !.fn = "update", !.old_data = Some(old_agg),
                                 !.data = Some(agg)]
       /\ data' = Some(agg)
       /\ ret' = None
       /\ warned' = <<>>
       /\ pc' = "called"
       /\ UNCHANGED <<self_vars, lifecycle_seen, lifecycle_sent, gen_vars>>

update ==
  /\ pc = "mounted"
  /\ \E old_agg \in Aggregates, agg \in Aggregates :
       /\ LET arms == {v \in Variants : old_agg[2].variant = v /\ agg[2].variant = v}
          IN IF arms # {}
             THEN /\ forwarded' = update_match(CHOOSE v \in arms : TRUE, agg)
                  /\ children_changed' = 0
             ELSE /\ forwarded' = <<>>
                  /\ children_changed' = 1
       /\ call' = [NoCall EXCEPT !.fn = "update", !.old_data = Some(old_agg),
                                 !.data = Some(agg)]
       /\ data' = Some(agg)
       /\ ret' = None
       /\ warned' = <<>>
       /\ pc' = "called"
       /\ UNCHANGED <<self_vars, lifecycle_seen, lifecycle_sent, gen_vars>>

layout ==
  /\ pc = "mounted"
  /\ \E bc \in BoxConstraintss, agg \in Aggregates, size \in Sizes :
       /\ LET r == layout_match(match_arm(agg[2]), bc, agg, size)
          IN /\ forwarded' = r.forwarded
             /\ ret' = Some(r.ret)
       /\ call' = [NoCall EXCEPT !.fn = "layout", !.bc = Some(bc),
                                 !.data = Some(agg)]
       /\ data' = Some(agg)
       /\ warned' = <<>>
       /\ children_changed' = 0
       /\ pc' = "called"
       /\ UNCHANGED <<self_vars, lifecycle_seen, lifecycle_sent, gen_vars>>

\* paint behind the discriminant guard of event
paint_guarded ==
  /\ pc = "mounted"
  /\ \E agg \in Aggregates :
       /\ forwarded' = IF discriminant_ = Some(discriminant(agg[2]))
                       THEN paint_match(match_arm(agg[2]), agg) ELSE <<>>
       /\ call' = [NoCall EXCEPT !.fn = "paint", !.data = Some(agg)]
       /\ data' = Some(agg)
       /\ ret' = None
       /\ warned' = <<>>
       /\ children_changed' = 0
       /\ pc' = "called"
       /\ UNCHANGED <<self_vars, lifecycle_seen, lifecycle_sent, gen_vars>>

paint ==
  /\ pc = "mounted"
  /\ \E agg \in Aggregates :
       /\ forwarded' = paint_match(match_arm(agg[2]), agg)
       /\ call' = [NoCall EXCEPT !.fn = "paint", !.data = Some(agg)]
       /\ data' = Some(agg)
       /\ ret' = None
       /\ warned' = <<>>
       /\ children_changed' = 0
       /\ pc' = "called"
       /\ UNCHANGED <<self_vars, lifecycle_seen, lifecycle_sent, gen_vars>>

\* the widget call returns to its caller (examples/login.rs:195): the host
\* has taken the call's results, and the per-call context is gone
call_returns ==
  /\ pc = "called"
  /\ pc' = "mounted"
  /\ call' = [NoCall EXCEPT !.fn = "returned"]
  /\ data' = None
  /\ ret' = None
  /\ forwarded' = <<>>
  /\ warned' = <<>>
  /\ children_changed' = 0
  /\ UNCHANGED <<self_vars, lifecycle_seen, lifecycle_sent, gen_vars>>


\* ====================================================== the derive function
\* identifiers are sequences of characters
Id_AppState == <<"A", "p", "p", "S", "t", "a", "t", "e">>
Id_App == <<"A", "p", "p">>
Id_E == <<"E">>
Id_Login == <<"L", "o", "g", "i", "n">>
Id_Main == <<"M", "a", "i", "n">>
Id_Third == <<"T", "h", "i", "r", "d">>
Id_Fourth == <<"F", "o", "u", "r", "t", "h">>
Id_signin == <<"s", "i", "g", "n", "I", "n">>
Id_Matcher == <<"M", "a", "t", "c", "h", "e", "r">>

\* the payload of a variant: syn::Fields
Unit == [kind |-> "Unit", types |-> <<>>]
Unnamed(types) == [kind |-> "Unnamed", types |-> types]
Named(types) == [kind |-> "Named", types |-> types]

\* the types of the payload fields of a variant, in declaration order
FieldTypes == <<"i32", "String", "bool", "u8">>

\* the payload shapes of the declarations derive is applied to
Fieldss ==
  {Unit} \cup {Unnamed(SubSeq(FieldTypes, 1, n)) : n \in 0..MaxFields}
         \cup {Named(<<"i32">>)}

\* the names of the variants of a declaration, in declaration order
VariantNames == <<Id_Login, Id_Main, Id_Third, Id_Fourth>>

\* the i-th variant of a declaration: its name, the #[matcher(builder_name)]
\* override if any, its payload
VariantDecls(i) ==
  [name : {VariantNames[i]}, builder_name : {None, Some(Id_signin)},
   fields : Fieldss]

RECURSIVE VariantSeqs(_)
\* the variant lists of exactly n variants
VariantSeqs(n) ==
  IF n = 0 THEN {<<>>}
  ELSE {Append(q, v) : q \in VariantSeqs(n - 1), v \in VariantDecls(n)}

\* the declarations derive is applied to
Decls ==
  [visibility : {"", "pub"},
   enum_name : {Id_AppState, Id_E},
   matcher_name : {None, Some(Id_App)},
   variants : UNION {VariantSeqs(n) : n \in 1..MaxVariants}]

\* enum AppState { Login(LoginState), Main(MainState) }, matcher_name = App
ExampleDecl ==
  [visibility |-> "", enum_name |-> Id_AppState, matcher_name |-> Some(Id_App),
   variants |-> << [name |-> Id_Login, builder_name |-> None,
                    fields |-> Unnamed(<<"LoginState">>)],
                   [name |-> Id_Main, builder_name |-> None,
                    fields |-> Unnamed(<<"MainState">>)] >>]

\* ---- mod parse (parse.rs)
UpperCase == <<"A", "B", "C", "D", "E", "F", "G", "H", "I", "J", "K", "L", "M",
               "N", "O", "P", "Q", "R", "S", "T", "U", "V", "W", "X", "Y", "Z">>
LowerCase == <<"a", "b", "c", "d", "e", "f", "g", "h", "i", "j", "k", "l", "m",
               "n", "o", "p", "q", "r", "s", "t", "u", "v", "w", "x", "y", "z">>

to_lowercase(id) ==
  [i \in 1..Len(id) |->
     IF \E k \in 1..26 : UpperCase[k] = id[i]
     THEN LowerCase[CHOOSE k \in 1..26 : UpperCase[k] = id[i]]
     ELSE id[i]]

\* MatcherVariant::resolve_builder_name
resolve_builder_name(variant) ==
  IF variant.builder_name # None THEN variant.builder_name[1]
  ELSE to_lowercase(variant.name)

\* MatcherDerive::resolve_matcher_name
resolve_matcher_name(input) ==
  IF input.matcher_name # None THEN input.matcher_name[1]
  ELSE input.enum_name \o Id_Matcher

\* impl Parse for MatcherDerive: a variant with named fields is an error
parse(d) ==
  IF \E i \in 1..Len(d.variants) : d.variants[i].fields.kind = "Named"
  THEN [ok |-> FALSE, error |-> "named fields are not supported"]
  ELSE [ok |-> TRUE, input |-> d]

\* ---- derive (lib.rs)
RECURSIVE separated(_, _)
\* #(#items),* : the items separated by commas
separated(items, comma) ==
  IF Len(items) = 0 THEN <<>>
  ELSE IF Len(items) = 1 THEN <<items[1]>>
  ELSE <<items[1], comma>> \o separated(Tail(items), comma)

RECURSIVE terminated(_, _)
\* #(#items,)* : each item followed by a comma
terminated(items, comma) ==
  IF Len(items) = 0 THEN <<>>
  ELSE <<items[1], comma>> \o terminated(Tail(items), comma)

\* Fields::Named(_) => unreachable!(): the function panics
Unreachable == <<"unreachable!">>

\* type_of that writes a comma after every type
type_of_terminated(variant) ==
  IF variant.fields.kind = "Unit" THEN <<"(", ")">>
  ELSE IF variant.fields.kind = "Unnamed" /\ Len(variant.fields.types) = 0
  THEN <<"(", ")">>
  ELSE IF variant.fields.kind = "Unnamed"
  THEN <<"(">> \o terminated(variant.fields.types, ",") \o <<")">>
  ELSE Unreachable

\* the tokens of the `T` in `Widget<(Shared, T)>` for the variant
type_of(variant) ==
  IF variant.fields.kind = "Unit" THEN <<"(", ")">>
  ELSE IF variant.fields.kind = "Unnamed" /\ Len(variant.fields.types) = 0
  THEN <<"(", ")">>
  ELSE IF variant.fields.kind = "Unnamed"
  THEN <<"(">> \o separated(variant.fields.types, ",") \o <<")">>
  ELSE Unreachable

Digits == <<"0", "1", "2", "3", "4", "5", "6", "7", "8", "9">>

\* format_ident!("{}p{}", prefix, i)
binding(prefix, i) == prefix \o <<"p", Digits[i + 1]>>

\* (pattern to match for, `data` param for the widget); every token is a
\* sequence of characters
data_of(variant, prefix) ==
  IF variant.fields.kind = "Unit"
  THEN [pattern |-> <<>>,
        values |-> << <<"&", "m", "u", "t">>, <<"(">>, <<")">> >>]
  ELSE IF variant.fields.kind = "Unnamed" /\ Len(variant.fields.types) = 0
  THEN [pattern |-> << <<"(">>, <<")">> >>,
        values |-> << <<"&", "m", "u", "t">>, <<"(">>, <<")">> >>]
  ELSE IF variant.fields.kind = "Unnamed"
  THEN LET names == [i \in 1..Len(variant.fields.types) |->
                       binding(prefix, i - 1)]
       IN [pattern |-> << <<"(">> >> \o separated(names, <<",">>)
                                     \o << <<")">> >>,
           values |-> << <<"(">> >> \o separated(names, <<",">>)
                                    \o << <<")">> >>]
  ELSE [pattern |-> <<Unreachable>>, values |-> <<Unreachable>>]

\* (Shared, #variant_ty)
shared_and(variant_ty) == <<"(", "Shared", ",">> \o variant_ty \o <<")">>

\* #builder_name: Option<WidgetPod<(Shared, #variant_ty), Box<dyn Widget<..>>>>
struct_fields(variant) ==
  [name |-> resolve_builder_name(variant),
   pod_data |-> shared_and(type_of(variant)),
   widget_data |-> shared_and(type_of(variant))]

\* #builder_name: None
struct_defaults(variant) ==
  [name |-> resolve_builder_name(variant), value |-> "None"]

\* builder_fns that names the setter after the variant, whatever the override
builder_fns_item_from_variant(variant) ==
  [name |-> to_lowercase(variant.name),
   widget_data |-> shared_and(type_of(variant)),
   assigns |-> resolve_builder_name(variant)]

\* pub fn #builder_name(mut self, widget: impl Widget<(Shared, #variant_ty)>)
\* { self.#builder_name = Some(..); self }
builder_fns_item(variant) ==
  [name |-> resolve_builder_name(variant),
   widget_data |-> shared_and(type_of(variant)),
   assigns |-> resolve_builder_name(variant)]

\* an arm of one of the five matches: the variant it matches, the pattern
\* it binds, the slot it routes to, the data it hands to the child
match_item(enum_name, variant, prefix) ==
  [enum_name |-> enum_name, variant_name |-> variant.name,
   pattern |-> data_of(variant, prefix).pattern,
   field |-> resolve_builder_name(variant),
   values |-> data_of(variant, <<>>).values]

each(input, f(_)) == [i \in 1..Len(input.variants) |-> f(input.variants[i])]

\* output that names the struct after the union itself
output_struct_enum_name(input) ==
  LET enum_name == input.enum_name
      matcher_name == resolve_matcher_name(input)
      arms == each(input, LAMBDA v : match_item(enum_name, v, <<>>))
  IN [matcher_fn |-> [impl_for |-> enum_name, returns |-> matcher_name,
                      calls_new_of |-> matcher_name],
      struct |-> [visibility |-> input.visibility, name |-> enum_name,
                  fields |-> each(input, struct_fields)],
      builder_impl |-> [impl_for |-> matcher_name,
                        new |-> each(input, struct_defaults),
                        builder_fns |-> each(input, builder_fns_item)],
      widget_impl |-> [impl_for |-> matcher_name,
                       data_enum |-> enum_name,
                       warns_as |-> matcher_name,
                       widget_added_checks |->
                         each(input, resolve_builder_name),
                       event_match |-> arms,
                       lifecycle_match |-> arms,
                       update_match |->
                         each(input, LAMBDA v : match_item(enum_name, v, <<"o", "l", "d", "_">>)),
                       layout_match |-> arms,
                       paint_match |-> arms]]

\* let output = quote! { .. }: the generated items
output(input) ==
  LET enum_name == input.enum_name
      matcher_name == resolve_matcher_name(input)
      arms == each(input, LAMBDA v : match_item(enum_name, v, <<>>))
  IN [matcher_fn |-> [impl_for |-> enum_name, returns |-> matcher_name,
                      calls_new_of |-> matcher_name],
      struct |-> [visibility |-> input.visibility, name |-> matcher_name,
                  fields |-> each(input, struct_fields)],
      builder_impl |-> [impl_for |-> matcher_name,
                        new |-> each(input, struct_defaults),
                        builder_fns |-> each(input, builder_fns_item)],
      widget_impl |-> [impl_for |-> matcher_name,
                       data_enum |-> enum_name,
                       warns_as |-> matcher_name,
                       widget_added_checks |->
                         each(input, resolve_builder_name),
                       event_match |-> arms,
                       lifecycle_match |-> arms,
                       update_match |->
                         each(input, LAMBDA v : match_item(enum_name, v, <<"o", "l", "d", "_">>)),
                       layout_match |-> arms,
                       paint_match |-> arms]]

\* what derive hands back to the compiler: the generated items, or the
\* error of the stage that failed
Expansion(items) ==
  [ok |-> TRUE, items |-> Some(items), error |-> None, stage |-> "output"]
CompileError(stage, message) ==
  [ok |-> FALSE, items |-> None, error |-> Some(message), stage |-> stage]

\* the synthesis of input runs into one of the unreachable!() branches
panics(input) ==
  \E i \in 1..Len(input.variants) :
    \/ type_of(input.variants[i]) = Unreachable
    \/ data_of(input.variants[i], <<>>).pattern = <<Unreachable>>

\* the items for input, or the panic of an unreachable!() branch
synthesize(input) ==
  IF panics(input)
  THEN CompileError("panic", "internal error: entered unreachable code")
  ELSE Expansion(output(input))

\* derive that goes on with the declaration when parsing reported an error
derive_unchecked ==
  /\ expansion = None
  /\ expansion' = Some(synthesize(decl))
  /\ UNCHANGED <<self_vars, pc, call, data, ret, forwarded, warned,
                 children_changed, lifecycle_seen, lifecycle_sent, decl>>

\* pub fn derive(input: TokenStream) -> TokenStream
derive ==
  /\ expansion = None
  /\ LET parsed == parse(decl)
     IN expansion' = Some(IF parsed.ok THEN synthesize(parsed.input)
                          ELSE CompileError("parse", parsed.error))
  /\ UNCHANGED <<self_vars, pc, call, data, ret, forwarded, warned,
                 children_changed, lifecycle_seen, lifecycle_sent, decl>>

\* ------------------------------------------------------------ specification
Init ==
  /\ new
  /\ pc = "building"
  /\ call = NoCall
  /\ data = None
  /\ ret = None
  /\ forwarded = <<>>
  /\ warned = <<>>
  /\ children_changed = 0
  /\ lifecycle_seen = None
  /\ lifecycle_sent = <<>>
  /\ decl = ExampleDecl
  /\ expansion = None

Next ==
  \/ \E v \in Variants, w \in Widgets : builder_fns(v, w)
  \/ \E w \in Widgets : default(w)
  \/ default_empty
  \/ ui
  \/ event
  \/ lifecycle
  \/ update
  \/ layout
  \/ paint
  \/ call_returns

Spec == Init /\ [][Next]_vars

\* derive applied to one declaration
GenInit ==
  /\ new
  /\ pc = "building"
  /\ call = NoCall
  /\ data = None
  /\ ret = None
  /\ forwarded = <<>>
  /\ warned = <<>>
  /\ children_changed = 0
  /\ lifecycle_seen = None
  /\ lifecycle_sent = <<>>
  /\ decl \in Decls
  /\ expansion = None

GenNext == derive

GenSpec == GenInit /\ [][GenNext]_vars

\* ============================================================== properties
\* the slot number under which calls on the default child would be recorded
DefaultSlot == 0

WidgetFns == {"event", "lifecycle", "update", "layout", "paint"}

\* the union value of the most recent widget call
CallUnion == call.data[1][2]
\* the pair (Shared, payload) built from the aggregate of the most recent call
CallPair == <<call.data[1][1], call.data[1][2].payload>>

\* C1: an event call made while the recorded discriminant is unset or differs
\* from the discriminant of the value's variant forwards nothing to any child,
\* leaves the aggregate as it was passed in, and leaves the slots, the default
\* slot and the recorded discriminant unchanged.
C1_EventMismatchNoEffect ==
  [][ (call'.fn = "event"
        /\ discriminant_ # Some(discriminant(call'.data[1][2])))
      => /\ forwarded' = <<>>
         /\ data' = call'.data
         /\ UNCHANGED <<slots, default_, discriminant_>> ]_vars

C1_Witness ==
  /\ call.fn = "event"
  /\ discriminant_ # None
  /\ discriminant_ # Some(discriminant(CallUnion))
  /\ slots[CallUnion.variant] # None
  /\ default_ # None

\* C2: an event call whose value holds the variant of the latest lifecycle
\* call is forwarded exactly once, with the same event and the pair (shared,
\* payload), to the child in that variant's slot; with the slot empty nothing
\* is forwarded.
C2_EventRoutedAfterLifecycle ==
  (call.fn = "event" /\ lifecycle_seen = Some(CallUnion.variant)) =>
    LET v == CallUnion.variant
    IN IF slots[v] # None
       THEN /\ Len(forwarded) = 1
            /\ forwarded[1].fn = "event"
            /\ forwarded[1].slot = v
            /\ forwarded[1].widget = slots[v][1]
            /\ forwarded[1].event = call.event
            /\ forwarded[1].data = Some(CallPair)
       ELSE forwarded = <<>>

C2_Witness ==
  /\ call.fn = "event"
  /\ lifecycle_seen = Some(CallUnion.variant)
  /\ CallUnion.variant = 2
  /\ slots[2] # None
  /\ Len(forwarded) = 1

\* C3: the recorded discriminant always equals the variant of the value given
\* to the latest lifecycle call (of any kind) and is unset exactly when no
\* lifecycle call has happened; lifecycle_seen changes in lifecycle calls only,
\* so a write by event, update, layout or paint would break the equality.
C3_DiscriminantIsLastLifecycle ==
  discriminant_ = lifecycle_seen

C3_Witness ==
  /\ call.fn = "update"
  /\ discriminant_ = Some(1)
  /\ call.old_data[1][2].variant = 1
  /\ CallUnion.variant = 2

\* C4: update(old, new) with old and new of the same variant forwards exactly
\* one update with (new shared, new payload) to that variant's child, if one
\* is installed, and does not call children_changed; with different variants
\* it calls children_changed exactly once and forwards nothing.
C4_UpdateRouting ==
  call.fn = "update" =>
    LET v == CallUnion.variant
    IN IF call.old_data[1][2].variant = v
       THEN /\ children_changed = 0
            /\ IF slots[v] # None
               THEN /\ Len(forwarded) = 1
                    /\ forwarded[1].fn = "update"
                    /\ forwarded[1].slot = v
                    /\ forwarded[1].widget = slots[v][1]
                    /\ forwarded[1].data = Some(CallPair)
               ELSE forwarded = <<>>
       ELSE /\ children_changed = 1
            /\ forwarded = <<>>

C4_Witness ==
  /\ call.fn = "update"
  /\ call.old_data[1][2].variant # CallUnion.variant
  /\ slots[CallUnion.variant] # None
  /\ slots[call.old_data[1][2].variant] # None
  /\ children_changed = 1

\* number of warnings about variant v in the warnings of the latest call
WarnCount(v) == Cardinality({i \in 1..Len(warned) : warned[i] = v})

\* C5: a lifecycle call with WidgetAdded warns exactly once for each variant
\* with neither its own child nor a default child and for no other variant,
\* whatever the active variant; any other call warns about nothing.
C5_WidgetAddedWarnings ==
  IF call.fn = "lifecycle" /\ call.event = Some("WidgetAdded")
  THEN \A v \in Variants :
         WarnCount(v) = IF default_ = None /\ slots[v] = None THEN 1 ELSE 0
  ELSE warned = <<>>

C5_Witness ==
  /\ call.fn = "lifecycle"
  /\ call.event = Some("WidgetAdded")
  /\ default_ = None
  /\ slots[1] # None
  /\ slots[2] = None
  /\ CallUnion.variant = 1
  /\ warned = <<2>>

\* the most recent call is a widget call that routes to the variant of its
\* value: any lifecycle, layout or paint call, an update between values of one
\* variant, an event whose discriminant guard passed
RoutedCall ==
  \/ call.fn \in {"lifecycle", "layout", "paint"}
  \/ call.fn = "update" /\ call.old_data[1][2].variant = CallUnion.variant
  \/ call.fn = "event" /\ discriminant_ = Some(discriminant(CallUnion))

\* C6: when the active variant's own slot is empty and a default child is
\* installed, a routed event / lifecycle / update / layout / paint call is
\* served by the default child.
C6_DefaultChildServes ==
  (RoutedCall /\ slots[CallUnion.variant] = None /\ default_ # None) =>
    \E i \in 1..Len(forwarded) :
      /\ forwarded[i].slot = DefaultSlot
      /\ forwarded[i].widget = default_[1]
      /\ forwarded[i].fn = call.fn

\* C7: a widget call made while the active variant's slot is empty calls no
\* child and leaves the aggregate unchanged; layout returns the minimum size
\* of its constraints and the other calls return nothing.
C7_EmptySlotTolerated ==
  (call.fn \in WidgetFns /\ slots[CallUnion.variant] = None) =>
    /\ forwarded = <<>>
    /\ data = call.data
    /\ ret = IF call.fn = "layout" THEN Some(call.bc[1].min) ELSE None

C7_Witness ==
  /\ call.fn = "layout"
  /\ slots[CallUnion.variant] = None
  /\ call.bc[1].min.width > 0
  /\ default_ # None
  /\ ret = Some(call.bc[1].min)

\* C8: a layout call with a child installed for the active variant calls the
\* child's layout exactly once with the given constraints, then sets the
\* child's layout rectangle to the rectangle of the size the child returned,
\* and returns that size; with no child it returns the constraints' minimum.
C8_LayoutRouting ==
  call.fn = "layout" =>
    LET v == CallUnion.variant
    IN IF slots[v] # None
       THEN /\ Len(forwarded) = 2
            /\ forwarded[1].fn = "layout"
            /\ forwarded[1].slot = v
            /\ forwarded[1].widget = slots[v][1]
            /\ forwarded[1].bc = call.bc
            /\ forwarded[2].fn = "set_layout_rect"
            /\ forwarded[2].slot = v
            /\ forwarded[2].widget = slots[v][1]
            /\ LET size == forwarded[1].result[1]
                   rect == forwarded[2].rect[1]
               IN /\ rect.x1 - rect.x0 = size.width
                  /\ rect.y1 - rect.y0 = size.height
                  /\ ret = Some(size)
       ELSE ret = Some(call.bc[1].min)

C8_Witness ==
  /\ call.fn = "layout"
  /\ slots[CallUnion.variant] # None
  /\ Len(forwarded) = 2
  /\ forwarded[1].result[1].width > call.bc[1].max.width
  /\ ret = forwarded[1].result

\* ---- reading a generated type: Rust's grammar of parenthesised types
\* a type is a path (`i32`) or a tuple (`()`, `(T,)`, `(T, U)`)
PathType(name) == [kind |-> "path", name |-> name, elems |-> <<>>]
TupleType(elems) == [kind |-> "tuple", name |-> "", elems |-> elems]
UnitType == TupleType(<<>>)

RECURSIVE TypeAt(_, _), TypeListAt(_, _, _, _)
\* the type that starts at token i, and the index after its last token
TypeAt(ts, i) ==
  IF ts[i] # "(" THEN [ty |-> PathType(ts[i]), next |-> i + 1]
  ELSE TypeListAt(ts, i + 1, <<>>, FALSE)

\* the rest of a parenthesised list: `(T)` is T itself, `(T,)` a 1-tuple
TypeListAt(ts, i, elems, comma) ==
  IF ts[i] = ")"
  THEN [ty |-> IF Len(elems) = 1 /\ ~comma THEN elems[1] ELSE TupleType(elems),
        next |-> i + 1]
  ELSE LET e == TypeAt(ts, i)
       IN IF ts[e.next] = ","
          THEN TypeListAt(ts, e.next + 1, Append(elems, e.ty), TRUE)
          ELSE TypeListAt(ts, e.next, Append(elems, e.ty), FALSE)

\* the type a token sequence denotes
TypeOfTokens(ts) == TypeAt(ts, 1).ty

\* the payload type the declaration gives a variant: the unit type without
\* payload, the payload's type for one field, the tuple of the types otherwise
PayloadType(fields) ==
  IF Len(fields.types) = 0 THEN UnitType
  ELSE IF Len(fields.types) = 1 THEN PathType(fields.types[1])
  ELSE TupleType([i \in 1..Len(fields.types) |-> PathType(fields.types[i])])

\* the child data type (Shared, P)
SharedAnd(P) == TupleType(<<PathType("Shared"), P>>)

Expanded == expansion # None /\ expansion[1].ok
Items == expansion[1].items[1]

\* C9: for every variant of a declaration derive accepts, the data type of
\* the variant's slot (of its pod and of its boxed widget) and of its builder
\* setter's widget is (Shared, P), P being the unit type for no payload or an
\* empty tuple payload, the payload type for a single payload, and the
\* ordered tuple of the payload types for a tuple payload.
C9_ChildTypeMatchesShape ==
  Expanded =>
    \A i \in 1..Len(decl.variants) :
      LET want == SharedAnd(PayloadType(decl.variants[i].fields))
      IN /\ TypeOfTokens(Items.struct.fields[i].pod_data) = want
         /\ TypeOfTokens(Items.struct.fields[i].widget_data) = want
         /\ TypeOfTokens(Items.builder_impl.builder_fns[i].widget_data) = want

\* a union {A(i32), B}: the first setter takes a widget over (Shared, i32),
\* the second one over (Shared, ())
C9_Witness ==
  /\ Expanded
  /\ Len(decl.variants) = 2
  /\ decl.variants[1].fields = Unnamed(<<"i32">>)
  /\ decl.variants[2].fields = Unit
  /\ Items.builder_impl.builder_fns[1].widget_data
       = <<"(", "Shared", ",", "(", "i32", ")", ")">>
  /\ Items.builder_impl.builder_fns[2].widget_data
       = <<"(", "Shared", ",", "(", ")", ")">>
  /\ TypeOfTokens(Items.builder_impl.builder_fns[1].widget_data)
       = SharedAnd(PathType("i32"))
  /\ TypeOfTokens(Items.builder_impl.builder_fns[2].widget_data)
       = SharedAnd(UnitType)

\* C10: without a matcher_name override the dispatcher type is named the
\* union's name followed by `Matcher`, with an override it is named exactly
\* the override; the struct, both impl blocks and the return type and body of
\* the union's matcher() accessor all use that one name.
C10_MatcherName ==
  Expanded =>
    LET want == IF decl.matcher_name = None
                THEN decl.enum_name \o <<"M", "a", "t", "c", "h", "e", "r">>
                ELSE decl.matcher_name[1]
    IN /\ Items.struct.name = want
       /\ Items.builder_impl.impl_for = want
       /\ Items.widget_impl.impl_for = want
       /\ Items.matcher_fn.returns = want
       /\ Items.matcher_fn.calls_new_of = want
       /\ Items.matcher_fn.impl_for = decl.enum_name

C10_Witness ==
  /\ Expanded
  /\ decl.enum_name = Id_AppState
  /\ decl.matcher_name = None
  /\ Items.struct.name = <<"A", "p", "p", "S", "t", "a", "t", "e",
                           "M", "a", "t", "c", "h", "e", "r">>
  /\ Items.matcher_fn.returns = Items.struct.name

\* the arms generated for the i-th variant in the five matches
ArmsOf(i) ==
  {Items.widget_impl.event_match[i], Items.widget_impl.lifecycle_match[i],
   Items.widget_impl.update_match[i], Items.widget_impl.layout_match[i],
   Items.widget_impl.paint_match[i]}

\* C11: the builder name of a variant is its builder_name override, verbatim,
\* when it has one, and otherwise the variant's name with every upper-case
\* letter replaced by its lower-case letter; the slot field, its initializer
\* in new, the setter and the field it assigns, the WidgetAdded check and the
\* arm of each of the five matches all use that name, for that variant.
C11_BuilderName ==
  Expanded =>
    \A i \in 1..Len(decl.variants) :
      LET v == decl.variants[i]
          want == IF v.builder_name # None THEN v.builder_name[1]
                  ELSE to_lowercase(v.name)
      IN /\ v.builder_name = None =>
              /\ Len(want) = Len(v.name)
              /\ \A k \in 1..Len(want), c \in 1..26 :
                   /\ want[k] # UpperCase[c]
                   /\ v.name[k] = UpperCase[c] => want[k] = LowerCase[c]
                   /\ v.name[k] = LowerCase[c] => want[k] = LowerCase[c]
         /\ Items.struct.fields[i].name = want
         /\ Items.builder_impl.new[i].name = want
         /\ Items.builder_impl.builder_fns[i].name = want
         /\ Items.builder_impl.builder_fns[i].assigns = want
         /\ Items.widget_impl.widget_added_checks[i] = want
         /\ \A arm \in ArmsOf(i) :
              arm.field = want /\ arm.variant_name = v.name

\* Login without an override gives `login`; Main with the override signIn
\* gives `signIn`
C11_Witness ==
  /\ Expanded
  /\ Len(decl.variants) = 2
  /\ decl.variants[1].name = Id_Login
  /\ decl.variants[1].builder_name = None
  /\ decl.variants[2].builder_name = Some(Id_signin)
  /\ Items.builder_impl.builder_fns[1].name = <<"l", "o", "g", "i", "n">>
  /\ Items.builder_impl.builder_fns[2].name = <<"s", "i", "g", "n", "I", "n">>
  /\ Items.widget_impl.event_match[2].field = <<"s", "i", "g", "n", "I", "n">>

\* the declaration has a variant with named fields
HasNamed ==
  \E i \in 1..Len(decl.variants) : decl.variants[i].fields.kind = "Named"

\* C12: for a declaration with a named-field variant derive returns an error
\* of the parsing stage, with a message, and no generated items; no
\* declaration makes the synthesis run into an unreachable!() branch.
C12_NamedFieldsRejected ==
  expansion # None =>
    /\ expansion[1].stage # "panic"
    /\ HasNamed =>
         /\ ~expansion[1].ok
         /\ expansion[1].items = None
         /\ expansion[1].stage = "parse"
         /\ expansion[1].error # None

C12_Witness ==
  /\ expansion # None
  /\ Len(decl.variants) = 2
  /\ decl.variants[1].fields = Unnamed(<<"i32">>)
  /\ decl.variants[2].fields.kind = "Named"
  /\ ~expansion[1].ok
  /\ expansion[1].items = None

\* C13: the child an event is forwarded to receives the pair (shared,
\* payload) of the aggregate; when it returns the aggregate is the shared
\* state and the payload as the child left them, the payload wrapped in the
\* variant the value had; the variant after an event call is the variant
\* before it, forwarded or not.
C13_EventWritesBack ==
  call.fn = "event" =>
    /\ data[1][2].variant = CallUnion.variant
    /\ forwarded # <<>> =>
         LET d_after == forwarded[1].result[1]
         IN /\ forwarded[1].data = Some(CallPair)
            /\ data = Some(<<d_after[1], [variant |-> CallUnion.variant,
                                          payload |-> d_after[2]]>>)

C13_Witness ==
  /\ call.fn = "event"
  /\ forwarded # <<>>
  /\ forwarded[1].result[1][1] # call.data[1][1]
  /\ forwarded[1].result[1][2] # CallUnion.payload
  /\ data[1][1] = forwarded[1].result[1][1]
  /\ data[1][2].payload = forwarded[1].result[1][2]
  /\ data[1][2].variant = 2

\* the most recent call made exactly one call fn on the child of the slot of
\* its value's variant, with the call's event (if it has one) and the pair
\* (shared, payload), or no call when that slot is empty
RoutedBySlot(fn) ==
  LET v == CallUnion.variant
  IN IF slots[v] # None
     THEN forwarded = << [ChildCall(fn, v, slots[v][1]) EXCEPT
                            !.event = call.event, !.data = Some(CallPair)] >>
     ELSE forwarded = <<>>

\* C14: what lifecycle, update, layout and paint forward and return is fixed
\* by their arguments, the slots and what the child returns, whatever the
\* recorded discriminant is: they route to the child of the value's variant
\* also when the recorded discriminant is unset or names another variant.
C14_OnlyEventReadsDiscriminant ==
  /\ call.fn = "lifecycle" => RoutedBySlot("lifecycle") /\ ret = None
  /\ call.fn = "paint" => RoutedBySlot("paint") /\ ret = None
  /\ call.fn = "update" =>
       /\ ret = None
       /\ IF call.old_data[1][2].variant = CallUnion.variant
          THEN RoutedBySlot("update") /\ children_changed = 0
          ELSE forwarded = <<>> /\ children_changed = 1
  /\ call.fn = "layout" =>
       LET v == CallUnion.variant
       IN IF slots[v] # None
          THEN /\ Len(forwarded) = 2
               /\ forwarded[1] = [ChildCall("layout", v, slots[v][1]) EXCEPT
                                    !.bc = call.bc, !.data = Some(CallPair),
                                    !.result = forwarded[1].result]
               /\ forwarded[2] =
                    [ChildCall("set_layout_rect", v, slots[v][1]) EXCEPT
                       !.data = Some(CallPair),
                       !.rect = Some(to_rect(forwarded[1].result[1]))]
               /\ ret = forwarded[1].result
          ELSE forwarded = <<>> /\ ret = Some(call.bc[1].min)

C14_Witness ==
  /\ call.fn = "paint"
  /\ discriminant_ = Some(1)
  /\ CallUnion.variant = 2
  /\ slots[2] # None
  /\ Len(forwarded) = 1
  /\ forwarded[1].slot = 2

\* C15: every call that an event, lifecycle, update, layout or paint call
\* makes on a child goes to the one child installed in the slot of the
\* value's variant; an update between values of different variants calls no
\* child; the children of the other slots and the default child get no call.
C15_OnlyActiveChildCalled ==
  call.fn \in WidgetFns =>
    LET v == CallUnion.variant
    IN /\ \A i \in 1..Len(forwarded) :
            /\ forwarded[i].slot = v
            /\ slots[v] # None
            /\ forwarded[i].widget = slots[v][1]
       /\ (call.fn = "update" /\ call.old_data[1][2].variant # v)
            => forwarded = <<>>

C15_Witness ==
  /\ call.fn = "lifecycle"
  /\ call.event = Some("WidgetAdded")
  /\ \A v \in Variants : slots[v] # None
  /\ default_ # None
  /\ CallUnion.variant = 1
  /\ Len(forwarded) = 1
  /\ forwarded[1].slot = 1

\* C16: once the builder chain is finished no step changes a variant slot or
\* the default slot: event, lifecycle, update, layout and paint calls, with
\* the same or a changed variant, neither fill, empty nor replace a child.
C16_SlotsFixedAfterBuilding ==
  [][pc # "building" => slots' = slots /\ default_' = default_]_vars

C16_Witness ==
  /\ call.fn = "update"
  /\ call.old_data[1][2].variant = 1
  /\ CallUnion.variant = 2
  /\ lifecycle_seen = Some(1)
  /\ slots[1] # None
  /\ slots[2] = None
  /\ default_ # None

\* C17: the dispatcher that new() returns (matcher() returns new()) has all
\* variant slots empty, the default slot empty and the recorded discriminant
\* unset; the setter of variant v installs its widget in v's slot and changes
\* no other slot, nor the default slot, nor the recorded discriminant;
\* default installs its widget, default_empty an empty SizedBox, in the
\* default slot, and they change no variant slot nor the recorded
\* discriminant.
C17_BuilderFrame ==
  [][ /\ call.fn = "new" =>
           /\ \A v \in Variants : slots[v] = None
           /\ default_ = None
           /\ discriminant_ = None
      /\ call'.fn = "builder_fns" =>
           /\ slots' = [slots EXCEPT ![call'.variant[1]] = call'.widget]
           /\ default_' = default_
           /\ discriminant_' = discriminant_
      /\ call'.fn = "default" =>
           /\ default_' = call'.widget
           /\ slots' = slots
           /\ discriminant_' = discriminant_
      /\ call'.fn = "default_empty" =>
           /\ default_' = Some(SizedBoxEmpty)
           /\ slots' = slots
           /\ discriminant_' = discriminant_ ]_vars

C17_Witness ==
  /\ call.fn = "builder_fns"
  /\ call.variant = Some(2)
  /\ slots[2] = call.widget
  /\ slots[1] # None
  /\ default_ = Some(SizedBoxEmpty)
  /\ discriminant_ = None

\* C18: whenever an event call forwards the event to a child, the latest
\* lifecycle call had a value of that child's variant and was forwarded to
\* that child, and to it alone; so a dispatcher that has had no lifecycle call
\* forwards no event, and no child gets an event before a lifecycle
\* notification.
C18_EventOnlyAfterLifecycle ==
  (call.fn = "event" /\ forwarded # <<>>) =>
    /\ lifecycle_seen = Some(forwarded[1].slot)
    /\ lifecycle_sent = << <<forwarded[1].slot, forwarded[1].widget>> >>

C18_Witness ==
  /\ call.fn = "event"
  /\ Len(forwarded) = 1
  /\ forwarded[1].slot = 2
  /\ lifecycle_seen = Some(2)
  /\ lifecycle_sent = << <<2, slots[2][1]>> >>
  /\ slots[1] # None

====
